---- MODULE Spec2Model ----
(***************************************************************************)
(* Model of the e-puck / pi-puck driver node EPuckPublisher                *)
(* (epuck_ros2_cpp/src/controller.cpp).                                    *)
(*                                                                         *)
(* Numbers.  The code computes with double and float; the model computes   *)
(* with exact fixed-point integers:                                        *)
(*   - a velocity command is (linear_x, angular_z) in 1/1000 m/s and       *)
(*     1/1000 rad/s;                                                       *)
(*   - a wheel velocity is an exact fraction <<numerator, denominator>>;   *)
(*   - a distance is an integer number of micrometres, an intensity of the *)
(*     table an integer number of 1/100 intensity units.                   *)
(* Bytes of the two char buffers are kept as their bit pattern 0..255.     *)
(***************************************************************************)
EXTENDS Integers, Sequences, FiniteSets

\* ------------------------------------------------------------- constants

MSG_ACTUATORS_SIZE == 20
MSG_SENSORS_SIZE == 47
PERIOD_MS == 64

\* WHEEL_DISTANCE = 0.05685 m and WHEEL_RADIUS = 0.02 m, in 1/100000 m
WHEEL_DISTANCE == 5685
WHEEL_RADIUS == 2000
\* the calibration step 0.0068 of on_cmd_vel_received, in 1/10000
VELOCITY_STEP == 68
\* the register range of on_cmd_vel_received
REG_MAX == 1108
\* distance_from_center = 0.035 m, in micrometres
distance_from_center == 35000
\* the value 100.0 m returned when no table row brackets the input
SENTINEL == 100000000

\* ---------------------------------------------------------------- bounds

MaxTicks == 3
MaxCmds == 2

\* ---------------------------------------------------------------- inputs

\* linear.x in 1/1000 m/s and angular.z in 1/1000 rad/s of a Twist message
LinearInputs == {-2000, 0, 100}
AngularInputs == {0, 6000}
\* what set_address returns: an error or success
SetAddressResults == {-1, 0}
\* what read_data returns: an error, a short read, the whole frame
ReadResults == {-1, 10, MSG_SENSORS_SIZE}
\* low and high byte the device repeats over a frame it sends
DevicePatterns == {<<0, 0>>, <<255, 15>>}

\* arguments of the direct calls of intensity_to_distance
IntensityInputs == (-260)..4400
\* right registers of the directly stored pairs (the left ones: all)
RightRegisterInputs == {-1108, -1, 0, 300, 1108}
\* low and high byte of a sensor in the frames given to publish_distance_data
SensorSamples == {<<0, 0>>, <<255, 15>>, <<44, 1>>}

NoFrame == <<>>
NoCmd == <<>>

VARIABLES
  ndebug,          \* build: assert() compiled out (NDEBUG)
  char_signed,     \* build: plain char is signed
  running,         \* the process is alive
  msg_actuators,   \* char msg_actuators[20], as bytes 0..255
  msg_sensors,     \* char msg_sensors[47], as bytes 0..255
  clock,           \* number of timer ticks so far; now() reads it
  status,          \* update_callback's local status at the end of the last tick
  stamp,           \* update_callback's local stamp at the end of the last tick
  bus,             \* transport calls of the last tick, in order
  written,         \* the buffer the last write_data call transmitted
  published,       \* the scans handed to laser_publisher, in order
  nread,           \* what the last read_data call returned
  sensors_whole,   \* msg_sensors holds one whole frame (no short read tore it)
  lastCmd,         \* the last Twist received, <<linear_x, angular_z>>
  prevCmd,         \* the Twist received before it
  cmds,            \* number of Twist messages received
  sentSinceCmd,    \* write_data calls since the last Twist
  okTicks,         \* ticks with set_address >= 0 and a 47-byte read
  p_x,             \* argument of a direct call of intensity_to_distance
  p_y,             \* its result
  regs,            \* a register pair stored directly, <<left, right>>
  called           \* the direct call has returned

vars == <<ndebug, char_signed, running, msg_actuators, msg_sensors, clock,
          status, stamp, bus, written, published, nread, sensors_whole,
          lastCmd, prevCmd, cmds, sentSinceCmd, okTicks, p_x, p_y, regs,
          called>>

\* ------------------------------------------------- intensity_to_distance

\* the breakpoints <<distance in micrometres, intensity in 1/100>>
table == << <<0, 409500>>, <<5000, 213333>>, <<10000, 146573>>,
            <<15000, 60146>>, <<20000, 38384>>, <<30000, 23493>>,
            <<40000, 15803>>, <<50000, 12000>>, <<60000, 10409>>,
            <<70000, 6719>>, <<100000, 0>> >>

\* p_y of the row pair (i, i+1): the line through both rows, at x (1/100)
Interpolate(i, x) ==
  LET b_x == table[i][2]
      b_y == table[i][1]
      a_x == table[i + 1][2]
      a_y == table[i + 1][1]
  IN  ((b_y - a_y) * (x - a_x)) \div (b_x - a_x) + a_y

\* the for loop from row i on: the first pair with table[i] >= x > table[i+1]
RECURSIVE TableWalk(_, _)
TableWalk(i, x) ==
  IF ~(i < Len(table))
    THEN SENTINEL
    ELSE IF table[i][2] >= x /\ table[i + 1][2] < x
           THEN Interpolate(i, x)
           ELSE TableWalk(i + 1, x)

\* the loop with the lower end of a pair included (<= for <)
RECURSIVE TableWalkClosed(_, _)
TableWalkClosed(i, x) ==
  IF ~(i < Len(table))
    THEN SENTINEL
    ELSE IF table[i][2] >= x /\ table[i + 1][2] <= x
           THEN Interpolate(i, x)
           ELSE TableWalkClosed(i + 1, x)

intensity_to_distance_closed(x) == TableWalkClosed(1, x * 100)

\* distance in micrometres of the intensity x (a whole number)
intensity_to_distance(x) == TableWalk(1, x * 100)

\* ------------------------------------------------------- on_cmd_vel_received

\* comparison of two fractions with positive denominators
Less(X, Y) == X[1] * Y[2] < Y[1] * X[2]

min(X, Y) == IF Less(X, Y) THEN X ELSE Y
max(X, Y) == IF Less(Y, X) THEN X ELSE Y

\* CLIP without its lower limit
CLIP_upper_only(VAL, MIN, MAX) == min(MAX, VAL)

CLIP(VAL, MIN, MAX) == max(min(MAX, VAL), MIN)

\* conversion of a fraction to int: towards zero
ToInt(X) == IF X[1] >= 0 THEN X[1] \div X[2] ELSE -((-X[1]) \div X[2])

\* wheel velocities in rad/s, as fractions
left_velocity(linear_x, angular_z) ==
  <<2 * linear_x * 100000 - angular_z * WHEEL_DISTANCE, 2 * WHEEL_RADIUS * 1000>>

right_velocity(linear_x, angular_z) ==
  <<2 * linear_x * 100000 + angular_z * WHEEL_DISTANCE, 2 * WHEEL_RADIUS * 1000>>

\* velocity / 0.0068 (the denominator is a multiple of 10000)
PerStep(velocity) == <<velocity[1], (velocity[2] \div 10000) * VELOCITY_STEP>>

\* int velocity_big = CLIP(velocity / 0.0068, -1108, 1108)
velocity_big(velocity) ==
  ToInt(CLIP(PerStep(velocity), <<-REG_MAX, 1>>, <<REG_MAX, 1>>))

\* the two bytes with >> 8 replaced by / 256 (which rounds towards zero)
EncodeRegisterDiv(r) ==
  <<r % 256, (IF r >= 0 THEN r \div 256 ELSE -((-r) \div 256)) % 256>>

\* <<r & 0xFF, (r >> 8) & 0xFF>> of a two's-complement int
EncodeRegister(r) == <<r % 256, (r \div 256) % 256>>

\* msg_actuators[0..3] = low and high byte of left, then of right
StoreRegisters(buf, left, right) ==
  [buf EXCEPT ![0] = EncodeRegister(left)[1],
              ![1] = EncodeRegister(left)[2],
              ![2] = EncodeRegister(right)[1],
              ![3] = EncodeRegister(right)[2]]

\* ----------------------------------------------------- publish_distance_data

\* the int value of a char holding the byte b
CharValue(b) == IF char_signed /\ b >= 128 THEN b - 256 ELSE b

\* msg_sensors[i * 2] + (msg_sensors[i * 2 + 1] << 8)
distance_intensity(buf, i) ==
  CharValue(buf[i * 2]) + CharValue(buf[i * 2 + 1]) * 256

\* float dist[8]
Dist(buf) ==
  [i \in 0..7 |-> intensity_to_distance(distance_intensity(buf, i))
                    + distance_from_center]

\* msg.ranges with entries 16 and 20 exchanged
RangesSwapped(dist) ==
  << dist[4],
     (3 \div 4) * dist[4] + (1 \div 4) * dist[5],
     (2 \div 4) * dist[4] + (2 \div 4) * dist[5],
     (1 \div 4) * dist[4] + (3 \div 4) * dist[5],
     dist[5],
     (2 \div 3) * dist[5] + (1 \div 3) * dist[6],
     (1 \div 3) * dist[5] + (2 \div 3) * dist[6],
     dist[6],
     (1 \div 2) * dist[6] + (1 \div 2) * dist[7],
     dist[7],
     (1 \div 2) * dist[7] + (1 \div 2) * dist[0],
     dist[0],
     (1 \div 2) * dist[0] + (1 \div 2) * dist[1],
     dist[1],
     (2 \div 3) * dist[1] + (1 \div 3) * dist[2],
     (1 \div 3) * dist[1] + (2 \div 3) * dist[2],
     dist[3],
     (3 \div 4) * dist[2] + (1 \div 4) * dist[3],
     (2 \div 4) * dist[2] + (2 \div 4) * dist[3],
     (1 \div 4) * dist[2] + (3 \div 4) * dist[3],
     dist[2] >>

\* msg.ranges: the weights are quotients of int literals, as written
Ranges(dist) ==
  << dist[4],                                        \* -150
     (3 \div 4) * dist[4] + (1 \div 4) * dist[5],    \* -135
     (2 \div 4) * dist[4] + (2 \div 4) * dist[5],    \* -120
     (1 \div 4) * dist[4] + (3 \div 4) * dist[5],    \* -105
     dist[5],                                        \* -90
     (2 \div 3) * dist[5] + (1 \div 3) * dist[6],    \* -75
     (1 \div 3) * dist[5] + (2 \div 3) * dist[6],    \* -60
     dist[6],                                        \* -45
     (1 \div 2) * dist[6] + (1 \div 2) * dist[7],    \* -30
     dist[7],                                        \* -15
     (1 \div 2) * dist[7] + (1 \div 2) * dist[0],    \* 0
     dist[0],                                        \* 15
     (1 \div 2) * dist[0] + (1 \div 2) * dist[1],    \* 30
     dist[1],                                        \* 45
     (2 \div 3) * dist[1] + (1 \div 3) * dist[2],    \* 60
     (1 \div 3) * dist[1] + (2 \div 3) * dist[2],    \* 75
     dist[2],                                        \* 90
     (3 \div 4) * dist[2] + (1 \div 4) * dist[3],    \* 105
     (2 \div 4) * dist[2] + (2 \div 4) * dist[3],    \* 120
     (1 \div 4) * dist[2] + (3 \div 4) * dist[3],    \* 135
     dist[3] >>                                      \* 150

\* the LaserScan built from msg_sensors; whole records whether the buffer
\* held one whole frame when the scan was built
LaserScan(st) ==
  [stamp |-> st,
   scan_time |-> PERIOD_MS \div 1000,
   ranges |-> Ranges(Dist(msg_sensors)),
   whole |-> sensors_whole]

\* laser_publisher->publish(msg)
publish_distance_data(st) == published' = Append(published, LaserScan(st))

\* ------------------------------------------------------------- transport

\* read_data(buf, size) returning n: the first n bytes come from the device
read_data(buf, n, d) ==
  [i \in 0..(MSG_SENSORS_SIZE - 1) |-> IF i < n THEN d[(i % 2) + 1] ELSE buf[i]]

\* now(), in milliseconds
now == clock * PERIOD_MS

\* ------------------------------------------------------------ construction

\* EPuckPublisher(): both buffers zeroed, nothing exchanged or published yet
Constructed ==
  /\ ndebug \in BOOLEAN
  /\ char_signed \in BOOLEAN
  /\ running = TRUE
  /\ msg_actuators = [i \in 0..(MSG_ACTUATORS_SIZE - 1) |-> 0]
  /\ clock = 0
  /\ status = 0
  /\ stamp = 0
  /\ bus = <<>>
  /\ written = NoFrame
  /\ published = <<>>
  /\ nread = 0
  /\ sensors_whole = TRUE
  /\ lastCmd = NoCmd
  /\ prevCmd = NoCmd
  /\ cmds = 0
  /\ sentSinceCmd = 0
  /\ okTicks = 0
  /\ called = FALSE

Init ==
  /\ Constructed
  /\ msg_sensors = [i \in 0..(MSG_SENSORS_SIZE - 1) |-> 0]
  /\ p_x = 0
  /\ p_y = 0
  /\ regs = <<0, 0>>

\* ------------------------------------------------------------------ actions

\* the cmd_vel subscription delivers a Twist
on_cmd_vel_received(linear_x, angular_z) ==
  /\ running
  /\ cmds < MaxCmds
  /\ LET left_velocity_big == velocity_big(left_velocity(linear_x, angular_z))
         right_velocity_big == velocity_big(right_velocity(linear_x, angular_z))
     IN  msg_actuators' =
           StoreRegisters(msg_actuators, left_velocity_big, right_velocity_big)
  /\ lastCmd' = <<linear_x, angular_z>>
  /\ prevCmd' = lastCmd
  /\ cmds' = cmds + 1
  /\ sentSinceCmd' = 0
  /\ UNCHANGED <<ndebug, char_signed, running, msg_sensors, clock, status,
                 stamp, bus, written, published, nread, sensors_whole,
                 okTicks, p_x, p_y, regs, called>>

\* a tick whose failed assert(status >= 0) ends the process
TickAborts(s) ==
  /\ running' = FALSE
  /\ status' = s
  /\ stamp' = 0
  /\ bus' = <<"set_address">>
  /\ UNCHANGED <<msg_actuators, msg_sensors, written, published, nread,
                 sensors_whole, sentSinceCmd, okTicks>>

\* the rest of a tick: write_data, read_data returning n, the stamp
TickExchanges(s, n, d) ==
  /\ status' = s
  /\ bus' = <<"set_address", "write_data", "read_data">>
  /\ written' = msg_actuators
  /\ sentSinceCmd' = sentSinceCmd + 1
  /\ msg_sensors' = read_data(msg_sensors, n, d)
  /\ nread' = n
  /\ sensors_whole' = IF n >= MSG_SENSORS_SIZE THEN TRUE
                      ELSE IF n > 0 THEN FALSE ELSE sensors_whole
  /\ okTicks' = IF s >= 0 /\ n = MSG_SENSORS_SIZE THEN okTicks + 1 ELSE okTicks
  /\ stamp' = IF s # MSG_SENSORS_SIZE THEN now' ELSE 0
  /\ UNCHANGED <<running, msg_actuators>>

\* the tick with the scan published after every exchange
update_callback_publishing ==
  /\ running
  /\ clock < MaxTicks
  /\ clock' = clock + 1
  /\ \E s \in SetAddressResults, n \in ReadResults, d \in DevicePatterns :
       IF s < 0 /\ ~ndebug
         THEN TickAborts(s)
         ELSE /\ TickExchanges(s, n, d)
              /\ published' =
                   Append(published,
                          [stamp |-> now',
                           scan_time |-> PERIOD_MS \div 1000,
                           ranges |-> Ranges(Dist(msg_sensors')),
                           whole |-> sensors_whole'])
  /\ UNCHANGED <<ndebug, char_signed, lastCmd, prevCmd, cmds, p_x, p_y, regs,
                 called>>

\* a ^ b of two bytes
Xor(a, b) ==
  LET bit(k) == ((a \div (2 ^ k)) + (b \div (2 ^ k))) % 2
  IN  bit(0) + 2 * bit(1) + 4 * bit(2) + 8 * bit(3)
      + 16 * bit(4) + 32 * bit(5) + 64 * bit(6) + 128 * bit(7)

\* msg_actuators[19] ^= msg_actuators[i] for i = from .. 18
RECURSIVE Checksum(_, _)
Checksum(buf, from) ==
  IF from > MSG_ACTUATORS_SIZE - 2
    THEN buf
    ELSE Checksum([buf EXCEPT ![MSG_ACTUATORS_SIZE - 1] =
                                 Xor(buf[MSG_ACTUATORS_SIZE - 1], buf[from])],
                  from + 1)

\* the tick with the commented-out checksum loop active
update_callback_checksum ==
  /\ running
  /\ clock < MaxTicks
  /\ clock' = clock + 1
  /\ \E s \in SetAddressResults, n \in ReadResults, d \in DevicePatterns :
       IF s < 0 /\ ~ndebug
         THEN TickAborts(s)
         ELSE /\ status' = s
              /\ bus' = <<"set_address", "write_data", "read_data">>
              /\ msg_actuators' = Checksum(msg_actuators, 0)
              /\ written' = msg_actuators'
              /\ sentSinceCmd' = sentSinceCmd + 1
              /\ msg_sensors' = read_data(msg_sensors, n, d)
              /\ nread' = n
              /\ sensors_whole' = IF n >= MSG_SENSORS_SIZE THEN TRUE
                                  ELSE IF n > 0 THEN FALSE ELSE sensors_whole
              /\ okTicks' = IF s >= 0 /\ n = MSG_SENSORS_SIZE
                              THEN okTicks + 1 ELSE okTicks
              /\ stamp' = IF s # MSG_SENSORS_SIZE THEN now' ELSE 0
              /\ UNCHANGED <<running, published>>
  /\ UNCHANGED <<ndebug, char_signed, lastCmd, prevCmd, cmds, p_x, p_y, regs,
                 called>>

\* the tick that transmits the frame of the tick before
update_callback_stale ==
  /\ running
  /\ clock < MaxTicks
  /\ clock' = clock + 1
  /\ \E s \in SetAddressResults, n \in ReadResults, d \in DevicePatterns :
       IF s < 0 /\ ~ndebug
         THEN TickAborts(s)
         ELSE /\ status' = s
              /\ bus' = <<"set_address", "write_data", "read_data">>
              /\ written' = IF written = NoFrame THEN msg_actuators ELSE written
              /\ sentSinceCmd' = sentSinceCmd + 1
              /\ msg_sensors' = read_data(msg_sensors, n, d)
              /\ nread' = n
              /\ sensors_whole' = IF n >= MSG_SENSORS_SIZE THEN TRUE
                                  ELSE IF n > 0 THEN FALSE ELSE sensors_whole
              /\ okTicks' = IF s >= 0 /\ n = MSG_SENSORS_SIZE
                              THEN okTicks + 1 ELSE okTicks
              /\ stamp' = IF s # MSG_SENSORS_SIZE THEN now' ELSE 0
              /\ UNCHANGED <<running, msg_actuators, published>>
  /\ UNCHANGED <<ndebug, char_signed, lastCmd, prevCmd, cmds, p_x, p_y, regs,
                 called>>

\* the timer fires: set_address returns s; with assertions compiled in, a
\* negative s ends the process; otherwise the frame is written, read_data
\* returns n and the local stamp is set from the status of set_address.
\* Nothing is published.
update_callback ==
  /\ running
  /\ clock < MaxTicks
  /\ clock' = clock + 1
  /\ \E s \in SetAddressResults, n \in ReadResults, d \in DevicePatterns :
       IF s < 0 /\ ~ndebug
         THEN TickAborts(s)
         ELSE /\ TickExchanges(s, n, d)
              /\ UNCHANGED published
  /\ UNCHANGED <<ndebug, char_signed, lastCmd, prevCmd, cmds, p_x, p_y, regs,
                 called>>

Next ==
  \/ \E linear_x \in LinearInputs, angular_z \in AngularInputs :
       on_cmd_vel_received(linear_x, angular_z)
  \/ update_callback

Spec == Init /\ [][Next]_vars

\* ------------------------------------------------- the functions on their own

\* the variables a direct call of a function leaves alone
driver == <<ndebug, char_signed, running, clock, status, stamp, bus, written,
            nread, sensors_whole, lastCmd, prevCmd, cmds, sentSinceCmd,
            okTicks>>

\* intensity_to_distance(p_x) for each argument of IntensityInputs
InitDistance ==
  /\ Constructed
  /\ msg_sensors = [i \in 0..(MSG_SENSORS_SIZE - 1) |-> 0]
  /\ p_x \in IntensityInputs
  /\ p_y = 0
  /\ regs = <<0, 0>>

call_intensity_to_distance ==
  /\ ~called
  /\ called' = TRUE
  /\ p_y' = intensity_to_distance(p_x)
  /\ UNCHANGED <<driver, msg_actuators, msg_sensors, published, p_x, regs>>

SpecDistance == InitDistance /\ [][call_intensity_to_distance]_vars

\* the four stores of on_cmd_vel_received for each register pair
InitStore ==
  /\ Constructed
  /\ msg_sensors = [i \in 0..(MSG_SENSORS_SIZE - 1) |-> 0]
  /\ p_x = 0
  /\ p_y = 0
  /\ regs \in ((-REG_MAX)..REG_MAX) \X RightRegisterInputs

store_registers ==
  /\ ~called
  /\ called' = TRUE
  /\ msg_actuators' = StoreRegisters(msg_actuators, regs[1], regs[2])
  /\ UNCHANGED <<driver, msg_sensors, published, p_x, p_y, regs>>

SpecStore == InitStore /\ [][store_registers]_vars

\* publish_distance_data on a whole frame received from the device
InitScan ==
  /\ Constructed
  /\ \E f \in [0..7 -> SensorSamples] :
       msg_sensors = [i \in 0..(MSG_SENSORS_SIZE - 1) |->
                        IF i < 16 THEN f[i \div 2][(i % 2) + 1] ELSE 0]
  /\ p_x = 0
  /\ p_y = 0
  /\ regs = <<0, 0>>

call_publish_distance_data ==
  /\ ~called
  /\ called' = TRUE
  /\ publish_distance_data(now)
  /\ UNCHANGED <<driver, msg_actuators, msg_sensors, p_x, p_y, regs>>

SpecScan == InitScan /\ [][call_publish_distance_data]_vars

\* ------------------------------------------------------------------- claims

\* a little-endian two's-complement 16-bit value, from its two bytes
DecodeS16(lo, hi) ==
  IF lo + 256 * hi >= 32768 THEN lo + 256 * hi - 65536 ELSE lo + 256 * hi

\* the left and right wheel registers a frame carries in bytes 0-1 and 2-3
FrameRegisters(frame) ==
  <<DecodeS16(frame[0], frame[1]), DecodeS16(frame[2], frame[3])>>

\* the registers on_cmd_vel_received computes for a Twist; zeros for none
CmdRegisters(cmd) ==
  IF cmd = NoCmd
    THEN <<0, 0>>
    ELSE <<velocity_big(left_velocity(cmd[1], cmd[2])),
           velocity_big(right_velocity(cmd[1], cmd[2]))>>

\* this step is a tick that reached write_data
TickWrote == clock' # clock /\ Len(bus') > 1

\* C1: in any run the number of scans published equals the number of ticks
\* whose bus transaction succeeded (set_address >= 0 and a 47-byte read).
C1_ScanPerSuccessfulTick == Len(published) = okTicks

\* C2: a tick whose read returns fewer than 47 bytes publishes no scan, and
\* no published scan was built while msg_sensors was torn by a short read.
C2_NoScanFromShortRead ==
  [][/\ (TickWrote /\ nread' < MSG_SENSORS_SIZE) => published' = published
     /\ \A k \in 1..Len(published') : published'[k].whole]_vars

\* a short read has torn msg_sensors (its head is new, its tail old) and
\* nothing has been published
C2_Witness ==
  /\ nread = 10
  /\ ~sensors_whole
  /\ msg_sensors[0] # msg_sensors[MSG_SENSORS_SIZE - 1]
  /\ published = <<>>

\* C3: a tick on which set_address returns a negative status performs no
\* write and no read, leaves msg_sensors unchanged and leaves the process
\* running (so that the next tick tries again).
C3_FailedSelectAbortsTickOnly ==
  [][(clock' # clock /\ status' < 0) =>
       /\ running'
       /\ bus' = <<"set_address">>
       /\ msg_sensors' = msg_sensors]_vars

\* C4: the two wheel registers of msg_actuators are always within
\* [-1108, 1108]; a command beyond the range is stored saturated at the
\* limit it exceeds, and the command (0, 0) stores (0, 0).
C4_RegistersSaturated ==
  LET r == FrameRegisters(msg_actuators)
      exact == IF lastCmd = NoCmd
                 THEN <<0, 0>>
                 ELSE <<2 * lastCmd[1] * 100000 - lastCmd[2] * WHEEL_DISTANCE,
                        2 * lastCmd[1] * 100000 + lastCmd[2] * WHEEL_DISTANCE>>
      unit == (2 * WHEEL_RADIUS * VELOCITY_STEP) \div 10
  IN  /\ \A w \in 1..2 :
           /\ r[w] >= -REG_MAX
           /\ r[w] <= REG_MAX
           /\ exact[w] > REG_MAX * unit => r[w] = REG_MAX
           /\ exact[w] < -REG_MAX * unit => r[w] = -REG_MAX
      /\ lastCmd = <<0, 0>> => r = <<0, 0>>

\* a command that saturates the left wheel at -1108 and the right at 1108
C4_Witness ==
  /\ lastCmd = <<0, 6000>>
  /\ FrameRegisters(msg_actuators) = <<-REG_MAX, REG_MAX>>

\* C5: the frame a tick transmits carries in bytes 0-3 the registers of the
\* most recent command received before the tick, or zeros if there is none.
C5_TickSendsLatestCommand ==
  [][TickWrote => FrameRegisters(written') = CmdRegisters(lastCmd)]_vars

\* a tick has transmitted the second of two commands with different registers
C5_Witness ==
  /\ cmds = 2
  /\ CmdRegisters(prevCmd) # CmdRegisters(lastCmd)
  /\ CmdRegisters(lastCmd) # <<0, 0>>
  /\ sentSinceCmd >= 1
  /\ FrameRegisters(written) = CmdRegisters(lastCmd)

Blends ==
  { <<1, 3, 4, 4, 5>>, <<2, 1, 2, 4, 5>>, <<3, 1, 4, 4, 5>>,
    <<5, 2, 3, 5, 6>>, <<6, 1, 3, 5, 6>>, <<8, 1, 2, 6, 7>>,
    <<10, 1, 2, 7, 0>>, <<12, 1, 2, 0, 1>>, <<14, 2, 3, 1, 2>>,
    <<15, 1, 3, 1, 2>>, <<17, 3, 4, 2, 3>>, <<18, 1, 2, 2, 3>>,
    <<19, 1, 4, 2, 3>> }

\* C7: every scan entry between two sensors equals w * d_a + (1 - w) * d_b
\* with w the exact fraction 1/4, 1/3, 1/2, 2/3 or 3/4 (not truncated to 0).
C7_BlendsUseExactFractions ==
  called =>
    LET scan == published[1].ranges
        d == Dist(msg_sensors)
    IN  \A b \in Blends :
          b[3] * scan[b[1] + 1] = b[2] * d[b[4]] + (b[3] - b[2]) * d[b[5]]

\* C8 as stated: intensity_to_distance(0) is 0, and not the value 100.0.
C8_ZeroIntensityIsContact == (called /\ p_x = 0) => p_y = 0

\* C8, amended: intensity_to_distance(0) is the value 100.0; that value is
\* returned exactly for the inputs no row pair brackets (table[i] >= x >
\* table[i+1]), which are the inputs <= 0 and those above 4095.
C8_ZeroIntensityIsSentinel ==
  called =>
    /\ p_x = 0 => p_y = SENTINEL
    /\ (p_y = SENTINEL) <=> (p_x <= 0 \/ p_x > 4095)

\* intensity_to_distance(0) has returned
C8_Witness == called /\ p_x = 0 /\ p_y = SENTINEL

\* C9: a register in [-1108, 1108] stored as low byte, high byte and read
\* back as a little-endian two's-complement 16-bit value is unchanged; 300
\* is stored as (0x2C, 0x01) and -1 as (0xFF, 0xFF).
C9_EncodeDecodeRoundTrip ==
  called =>
    /\ FrameRegisters(msg_actuators) = regs
    /\ regs[1] = 300 => <<msg_actuators[0], msg_actuators[1]>> = <<44, 1>>
    /\ regs[1] = -1 => <<msg_actuators[0], msg_actuators[1]>> = <<255, 255>>
    /\ regs[2] = 300 => <<msg_actuators[2], msg_actuators[3]>> = <<44, 1>>
    /\ regs[2] = -1 => <<msg_actuators[2], msg_actuators[3]>> = <<255, 255>>

\* the pair (-1, 300) has been stored
C9_Witness ==
  /\ called
  /\ regs = <<-1, 300>>
  /\ <<msg_actuators[0], msg_actuators[1], msg_actuators[2], msg_actuators[3]>>
       = <<255, 255, 44, 1>>

\* C10: a tick leaves msg_actuators unchanged, a command leaves bytes 4-19
\* unchanged, bytes 4-19 are always zero, and a tick that follows a
\* transmission with no command in between transmits the same frame again.
C10_FrameHeldBetweenCommands ==
  /\ \A i \in 4..(MSG_ACTUATORS_SIZE - 1) : msg_actuators[i] = 0
  /\ [][/\ clock' # clock => msg_actuators' = msg_actuators
        /\ cmds' # cmds =>
             \A i \in 4..(MSG_ACTUATORS_SIZE - 1) :
               msg_actuators'[i] = msg_actuators[i]
        /\ \A i \in 4..(MSG_ACTUATORS_SIZE - 1) : msg_actuators'[i] = 0
        /\ (TickWrote /\ sentSinceCmd >= 1) => written' = written]_vars

\* two ticks have transmitted the registers of one nonzero command
C10_Witness ==
  /\ cmds >= 1
  /\ sentSinceCmd >= 2
  /\ CmdRegisters(lastCmd) # <<0, 0>>
  /\ FrameRegisters(written) = CmdRegisters(lastCmd)
  /\ written = msg_actuators

====
